---- MODULE Spec2Model ----
(***************************************************************************)
(* html_substring (src/src/main.ts): a single pass over the characters of  *)
(* an HTML fragment that keeps at most `length` visible characters.        *)
(*                                                                         *)
(* Characters are one-character strings, strings are sequences of them.    *)
(* The cursor i is 0-based as in the source: chars[i] of the source is     *)
(* At(chars, i) here, and reading outside the array gives Undefined.       *)
(***************************************************************************)
EXTENDS Integers, Sequences, FiniteSets, TLC

VARIABLES
    chars,        \* Array.from(source)
    length,       \* the visible-character limit
    breakWords,   \* opts.breakWords
    suffix,       \* opts.suffix: "null", "string" or "function"
    current,      \* current text length
    i,            \* current source position
    openedQueue,  \* nonflushed open tags, each <<tag, other>>
    opened,       \* opened tags stack
    result,       \* the output accumulator
    cw,           \* current word
    cwEmpty,      \* no non-whitespace character since the last boundary
    flushed,      \* value of the final flushWord() (meaningful once pc = "done")
    pc,           \* "loop", "tag", "final", "done", "error", "hang"
    err,          \* <<>> or the HtmlSubstringError thrown: <<kind, tag, offset>>
    suffixCalls,  \* how many times a callback suffix was invoked
    cwAt,         \* history: source offset of every character of cw
    emitted       \* history: source offsets of the characters flushWord wrote

vars == << chars, length, breakWords, suffix, current, i, openedQueue, opened,
           result, cw, cwEmpty, flushed, pc, err, suffixCalls, cwAt, emitted >>

----------------------------------------------------------------------------
(* Bounds of the checked inputs *)

MaxTagToks == 5
MaxTextToks == 4
MaxLength == 2
MaxBrokenToks == 3

----------------------------------------------------------------------------
(* Characters *)

Undefined == "undefined"

At(a, k) == IF k >= 0 /\ k < Len(a) THEN a[k + 1] ELSE Undefined

\* <<lower, upper>> of every cased character of the checked inputs
Cases ==
    { <<"a", "A">>, <<"b", "B">>, <<"d", "D">>, <<"e", "E">>, <<"h", "H">>,
      <<"i", "I">>, <<"l", "L">>, <<"m", "M">>, <<"n", "N">>, <<"o", "O">>,
      <<"p", "P">>, <<"r", "R">>, <<"s", "S">>, <<"v", "V">>, <<"w", "W">>,
      <<"x", "X">>, <<"y", "Y">> }

toLowerCase(c) == IF \E p \in Cases : p[2] = c
                  THEN (CHOOSE p \in Cases : p[2] = c)[1] ELSE c

toUpperCase(c) == IF \E p \in Cases : p[1] = c
                  THEN (CHOOSE p \in Cases : p[1] = c)[2] ELSE c

isLetter(c) == toLowerCase(c) # toUpperCase(c)

isWhitespace(c) == c \in {" ", "\t", "\r", "\n"}

----------------------------------------------------------------------------
(* Array helpers *)

min(a, b) == IF a <= b THEN a ELSE b

max(a, b) == IF a >= b THEN a ELSE b

\* a.slice(from, to), 0-based, `to` exclusive
slice(a, from, to) == SubSeq(a, from + 1, to)

Reverse(s) == [k \in 1..Len(s) |-> s[Len(s) + 1 - k]]

\* The offset of the first character at or after k that is in stops; -1 when
\* the array ends first (the scanning loops of openTag and closeTag read
\* chars[i++] with no test of i, so they never end in that case).
RECURSIVE FirstAt(_, _, _)
FirstAt(a, k, stops) ==
    IF k >= Len(a) THEN -1
    ELSE IF At(a, k) \in stops THEN k
    ELSE FirstAt(a, k + 1, stops)

----------------------------------------------------------------------------
(* The scanners, called with i just after '<' (openTag) or '</' (closeTag) *)

\* [ends, tag, other, i]: ends = FALSE when a loop never finds its stop
openTag(a, k) ==
    LET e1 == FirstAt(a, k, {" ", ">"})
        e2 == FirstAt(a, e1 + 1, {">"})
    IN  IF e1 = -1 THEN [ends |-> FALSE, tag |-> <<>>, other |-> <<>>, i |-> k]
        ELSE IF At(a, e1) = ">"
        THEN [ends |-> TRUE, tag |-> slice(a, k, e1), other |-> <<>>, i |-> e1 + 1]
        ELSE IF e2 = -1
        THEN [ends |-> FALSE, tag |-> <<>>, other |-> <<>>, i |-> k]
        ELSE [ends |-> TRUE, tag |-> slice(a, k, e1),
              other |-> <<" ">> \o slice(a, e1 + 1, e2), i |-> e2 + 1]

\* [ends, tag, i]
closeTag(a, k) ==
    LET e == FirstAt(a, k, {">"})
    IN  IF e = -1 THEN [ends |-> FALSE, tag |-> <<>>, i |-> k]
        ELSE [ends |-> TRUE, tag |-> slice(a, k, e), i |-> e + 1]

----------------------------------------------------------------------------
(* The mutable locals that flushWord and openTags work on *)

Mem == [ result |-> result, current |-> current, cw |-> cw, opened |-> opened,
         openedQueue |-> openedQueue, cwAt |-> cwAt, emitted |-> emitted ]

RECURSIVE QueueText(_)
QueueText(q) ==
    IF q = <<>> THEN <<>>
    ELSE <<"<">> \o q[1][1] \o q[1][2] \o <<">">> \o QueueText(Tail(q))

QueueTags(q) == [k \in 1..Len(q) |-> q[k][1]]

openTags(m) ==
    [m EXCEPT !.result = m.result \o QueueText(m.openedQueue),
              !.opened = m.opened \o QueueTags(m.openedQueue),
              !.openedQueue = <<>>]

\* the part of flushWord that moves the first n characters of cw to result
Commit(m, n) ==
    LET o == openTags(m)
    IN  [o EXCEPT !.result = o.result \o SubSeq(m.cw, 1, n),
                  !.current = m.current + n,
                  !.cw = SubSeq(m.cw, n + 1, Len(m.cw)),
                  !.cwAt = SubSeq(m.cwAt, n + 1, Len(m.cwAt)),
                  !.emitted = m.emitted \cup {m.cwAt[k] : k \in 1..n}]

\* flushWordBreak with openTags() called before the tests instead of after
flushWordBreakEager(m, len) ==
    LET addable == max(min(len - m.current, Len(m.cw)), 0)
    IN  IF Len(m.cw) = 0 THEN [ret |-> TRUE, m |-> openTags(m)]
        ELSE IF addable = 0 THEN [ret |-> FALSE, m |-> openTags(m)]
        ELSE [ret |-> TRUE, m |-> Commit(m, addable)]

\* flushWordBreak with the remaining budget taken one too small
flushWordBreakOffByOne(m, len) ==
    LET addable == max(min(len - m.current - 1, Len(m.cw)), 0)
    IN  IF Len(m.cw) = 0 THEN [ret |-> TRUE, m |-> m]
        ELSE IF addable = 0 THEN [ret |-> FALSE, m |-> m]
        ELSE [ret |-> TRUE, m |-> Commit(m, addable)]

\* flushWord when opts.breakWords: [ret, m]
flushWordBreak(m, len) ==
    LET addable == max(min(len - m.current, Len(m.cw)), 0)
    IN  IF Len(m.cw) = 0 THEN [ret |-> TRUE, m |-> m]
        ELSE IF addable = 0 THEN [ret |-> FALSE, m |-> m]
        ELSE [ret |-> TRUE, m |-> Commit(m, addable)]

\* flushWordWhole with the word cut to what fits, as when breaking words
flushWordWholeCut(m, len) ==
    LET addable == max(min(len - m.current, Len(m.cw)), 0)
    IN  IF Len(m.cw) = 0 THEN [ret |-> TRUE, m |-> m]
        ELSE IF addable = 0 THEN [ret |-> FALSE, m |-> m]
        ELSE [ret |-> TRUE, m |-> Commit(m, addable)]

\* flushWord when not opts.breakWords: [ret, m]
flushWordWhole(m, len) ==
    IF Len(m.cw) = 0 THEN [ret |-> TRUE, m |-> m]
    ELSE IF m.current + Len(m.cw) <= len
    THEN [ret |-> TRUE, m |-> Commit(m, Len(m.cw))]
    ELSE [ret |-> FALSE, m |-> m]

flushWord(m, len, bw) ==
    IF bw THEN flushWordBreak(m, len) ELSE flushWordWhole(m, len)

\* assigns the locals from a Mem record
SetMem(m) ==
    /\ result' = m.result
    /\ current' = m.current
    /\ cw' = m.cw
    /\ opened' = m.opened
    /\ openedQueue' = m.openedQueue
    /\ cwAt' = m.cwAt
    /\ emitted' = m.emitted

Input == << chars, length, breakWords, suffix >>

----------------------------------------------------------------------------
(* The checked calls *)

RECURSIVE Flat(_)
Flat(ts) == IF ts = <<>> THEN <<>> ELSE ts[1] \o Flat(Tail(ts))

SeqsUpTo(S, n) == UNION { [1..k -> S] : k \in 0..n }

\* markup: two tag names, one closer, a letter, an entity
TagTokens ==
    { <<"<", "a", ">">>, <<"<", "b", ">">>, <<"<", "/", "a", ">">>,
      <<"x">>, <<"&", ";">> }

\* text: a letter, a space, a digit, an entity, '<!' and the comment delimiters
TextTokens ==
    { <<"x">>, <<" ">>, <<"1">>, <<"&", ";">>, <<"<", "!">>,
      <<"<", "!", "-", "-">>, <<"-", "-", ">">> }

\* broken markup: an entity without ';', tags without '>', and the pieces
\* that may or may not complete them
BrokenTokens ==
    { <<"x">>, <<" ">>, <<"&">>, <<";">>, <<"<", "a">>, <<"<", "/", "a">>,
      <<">">> }

Sources ==
    { Flat(ts) : ts \in SeqsUpTo(TagTokens, MaxTagToks) }
        \cup { Flat(ts) : ts \in SeqsUpTo(TextTokens, MaxTextToks) }
        \cup { Flat(ts) : ts \in SeqsUpTo(BrokenTokens, MaxBrokenToks) }

\* '<span><div>Hello</div> <p>World</p></span>' (README)
SrcReadme ==
    <<"<", "s", "p", "a", "n", ">", "<", "d", "i", "v", ">",
      "H", "e", "l", "l", "o", "<", "/", "d", "i", "v", ">", " ",
      "<", "p", ">", "W", "o", "r", "l", "d", "<", "/", "p", ">",
      "<", "/", "s", "p", "a", "n", ">">>

\* '<p>Hello World</p>'
SrcHelloWorld ==
    <<"<", "p", ">", "H", "e", "l", "l", "o", " ", "W", "o", "r", "l", "d",
      "<", "/", "p", ">">>

\* 'a<!-- bbbbbb -->b'
SrcComment ==
    <<"a", "<", "!", "-", "-", " ", "b", "b", "b", "b", "b", "b", " ",
      "-", "-", ">", "b">>

\* '<b>x</i>'
SrcUnbalanced == <<"<", "b", ">", "x", "<", "/", "i", ">">>

\* 'a &amp'
SrcOpenEntity == <<"a", " ", "&", "a", "m", "p">>

\* '<a class>x</a' and 'x<a': a tag with attributes, tags that never end
SrcOpenCloser == <<"<", "a", " ", "c", "l", "a", "s", "s", ">", "x", "<", "/", "a">>

SrcOpenOpener == <<"x", "<", "a">>

\* <<source, length>> of the calls quoted in the documentation
Examples ==
    { <<SrcReadme, 6>>, <<SrcHelloWorld, 7>>, <<SrcComment, 2>>,
      <<SrcUnbalanced, 10>>, <<SrcOpenEntity, 10>>,
      <<SrcOpenCloser, 10>>, <<SrcOpenOpener, 10>> }

Calls == (Sources \X (0..MaxLength)) \cup Examples

\* what a suffix adds, given as a string or returned by the callback
SuffixText == <<"...">>

Init ==
    /\ \E call \in Calls : chars = call[1] /\ length = call[2]
    /\ breakWords \in BOOLEAN
    /\ suffix \in {"null", "string", "function"}
    /\ current = 0
    /\ i = 0
    /\ openedQueue = <<>>
    /\ opened = <<>>
    /\ result = <<>>
    /\ cw = <<>>
    /\ cwEmpty = TRUE
    /\ flushed = FALSE
    /\ pc = "loop"
    /\ err = <<>>
    /\ suffixCalls = 0
    /\ cwAt = <<>>
    /\ emitted = {}

----------------------------------------------------------------------------
(* The main loop: one action per case of one iteration *)

LoopGuard == current < length /\ i < Len(chars)

InLoop == pc = "loop" /\ LoopGuard

\* case '<': the word is flushed first
LtFlush ==
    /\ InLoop /\ At(chars, i) = "<"
    /\ LET f == flushWord(Mem, length, breakWords)
       IN  /\ f.ret
           /\ SetMem(f.m)
    /\ i' = i + 1
    /\ pc' = "tag"
    /\ UNCHANGED << Input, cwEmpty, flushed, err, suffixCalls >>

\* case '<': flushWord() returned false, break mainloop
LtBreak ==
    /\ InLoop /\ At(chars, i) = "<"
    /\ LET f == flushWord(Mem, length, breakWords)
       IN  /\ ~f.ret
           /\ SetMem(f.m)
    /\ i' = i + 1
    /\ pc' = "final"
    /\ UNCHANGED << Input, cwEmpty, flushed, err, suffixCalls >>

IsCommentStart == At(chars, i) = "!" /\ At(chars, i + 1) = "-" /\ At(chars, i + 2) = "-"

\* where the copying loop of the comment branch stops when started at k;
\* -1 when it never stops (past the end every chars[..] is undefined)
RECURSIVE CommentStop(_, _)
CommentStop(a, k) ==
    IF At(a, k) # "-" /\ At(a, k + 1) # "-" /\ At(a, k + 2) # ">"
    THEN IF k >= Len(a) THEN -1 ELSE CommentStop(a, k + 1)
    ELSE k

\* case '!' with '--'
Comment ==
    /\ pc = "tag" /\ IsCommentStart
    /\ LET e == CommentStop(chars, i + 2)
       IN  IF e = -1
           THEN /\ pc' = "hang"
                /\ UNCHANGED << i, result >>
           ELSE /\ result' = result \o slice(chars, i + 2, e)
                /\ i' = e + 2
                /\ pc' = "loop"
    /\ UNCHANGED << Input, current, openedQueue, opened, cw, cwEmpty, flushed,
                    err, suffixCalls, cwAt, emitted >>

\* case '!' without '--': the '<' is one literal character
BangLiteral ==
    /\ pc = "tag" /\ At(chars, i) = "!" /\ ~IsCommentStart
    /\ current' = current + 1
    /\ result' = result \o <<"<">>
    /\ pc' = "loop"
    /\ UNCHANGED << Input, i, openedQueue, opened, cw, cwEmpty, flushed, err,
                    suffixCalls, cwAt, emitted >>

\* the pop loop with `success` starting true: an emptied stack is no error
PopToLenient(stack, tag) ==
    LET hits == { k \in 1..Len(stack) : stack[k] = tag }
    IN  IF hits = {} THEN [success |-> TRUE, opened |-> <<>>]
        ELSE LET top == CHOOSE k \in hits : \A h \in hits : h <= k
             IN  [success |-> TRUE, opened |-> SubSeq(stack, 1, top - 1)]

\* the pop loop of the close-tag case: [success, opened]
PopTo(stack, tag) ==
    LET hits == { k \in 1..Len(stack) : stack[k] = tag }
    IN  IF hits = {} THEN [success |-> FALSE, opened |-> <<>>]
        ELSE LET top == CHOOSE k \in hits : \A h \in hits : h <= k
             IN  [success |-> TRUE, opened |-> SubSeq(stack, 1, top - 1)]

\* case '/': the tag is found on the stack
CloseTagOk ==
    /\ pc = "tag" /\ At(chars, i) = "/"
    /\ LET t == closeTag(chars, i + 1)
           p == PopTo(opened, t.tag)
       IN  /\ t.ends /\ p.success
           /\ opened' = p.opened
           /\ result' = result \o <<"<", "/">> \o t.tag \o <<">">>
           /\ i' = t.i
    /\ pc' = "loop"
    /\ UNCHANGED << Input, current, openedQueue, cw, cwEmpty, flushed, err,
                    suffixCalls, cwAt, emitted >>

\* case '/': the stack empties without a match, HtmlSubstringError
CloseTagThrow ==
    /\ pc = "tag" /\ At(chars, i) = "/"
    /\ LET t == closeTag(chars, i + 1)
           p == PopTo(opened, t.tag)
       IN  /\ t.ends /\ ~p.success
           /\ opened' = p.opened
           /\ i' = t.i
           /\ err' = <<"closing tag", t.tag, i - 1>>
    /\ pc' = "error"
    /\ UNCHANGED << Input, current, openedQueue, result, cw, cwEmpty, flushed,
                    suffixCalls, cwAt, emitted >>

\* case '/': closeTag() never finds '>'
CloseTagHang ==
    /\ pc = "tag" /\ At(chars, i) = "/"
    /\ ~closeTag(chars, i + 1).ends
    /\ pc' = "hang"
    /\ UNCHANGED << Input, current, i, openedQueue, opened, result, cw, cwEmpty,
                    flushed, err, suffixCalls, cwAt, emitted >>

\* default: open tag, queued and not written yet
OpenTag ==
    /\ pc = "tag" /\ At(chars, i) \notin {"!", "/"}
    /\ LET t == openTag(chars, i)
       IN  /\ t.ends
           /\ openedQueue' = Append(openedQueue, <<t.tag, t.other>>)
           /\ i' = t.i
    /\ pc' = "loop"
    /\ UNCHANGED << Input, current, opened, result, cw, cwEmpty, flushed, err,
                    suffixCalls, cwAt, emitted >>

\* default: openTag() never finds its stop
OpenTagHang ==
    /\ pc = "tag" /\ At(chars, i) \notin {"!", "/"}
    /\ ~openTag(chars, i).ends
    /\ pc' = "hang"
    /\ UNCHANGED << Input, current, i, openedQueue, opened, result, cw, cwEmpty,
                    flushed, err, suffixCalls, cwAt, emitted >>

\* Entity with the copy stopping one character early, before the ';'
EntityShort ==
    /\ InLoop /\ At(chars, i) = "&"
    /\ LET e == FirstAt(chars, i + 1, {";"})
       IN  /\ e # -1
           /\ result' = result \o slice(chars, i, e)
           /\ i' = e + 1
    /\ current' = current + 1
    /\ UNCHANGED << Input, openedQueue, opened, cw, cwEmpty, flushed, pc, err,
                    suffixCalls, cwAt, emitted >>

\* case '&' with a ';' before the end
Entity ==
    /\ InLoop /\ At(chars, i) = "&"
    /\ LET e == FirstAt(chars, i + 1, {";"})
       IN  /\ e # -1
           /\ result' = result \o slice(chars, i, e + 1)
           /\ i' = e + 1
    /\ current' = current + 1
    /\ UNCHANGED << Input, openedQueue, opened, cw, cwEmpty, flushed, pc, err,
                    suffixCalls, cwAt, emitted >>

\* EntityThrow with `success` starting true: the entity counts, nothing is thrown
EntityThrowLenient ==
    /\ InLoop /\ At(chars, i) = "&"
    /\ FirstAt(chars, i + 1, {";"}) = -1
    /\ result' = result \o slice(chars, i, Len(chars))
    /\ i' = Len(chars)
    /\ current' = current + 1
    /\ UNCHANGED << Input, openedQueue, opened, cw, cwEmpty, flushed, pc, err,
                    suffixCalls, cwAt, emitted >>

\* case '&' with no ';' before the end, HtmlSubstringError
EntityThrow ==
    /\ InLoop /\ At(chars, i) = "&"
    /\ FirstAt(chars, i + 1, {";"}) = -1
    /\ result' = result \o slice(chars, i, Len(chars))
    /\ i' = Len(chars)
    /\ err' = <<"entity", <<>>, i>>
    /\ pc' = "error"
    /\ UNCHANGED << Input, current, openedQueue, opened, cw, cwEmpty, flushed,
                    suffixCalls, cwAt, emitted >>

IsContent(c) == c \notin {"<", "&"}

\* default: a non-letter after a word has begun flushes the word first
EndsWord(c) == ~isLetter(c) /\ ~cwEmpty

Content ==
    /\ InLoop /\ IsContent(At(chars, i))
    /\ LET c == At(chars, i)
           f == IF EndsWord(c) THEN flushWord(Mem, length, breakWords)
                ELSE [ret |-> TRUE, m |-> Mem]
       IN  /\ f.ret
           /\ SetMem([f.m EXCEPT !.cw = Append(f.m.cw, c),
                                 !.cwAt = Append(f.m.cwAt, i)])
           /\ cwEmpty' = IF ~isWhitespace(c) THEN FALSE
                         ELSE IF EndsWord(c) THEN TRUE ELSE cwEmpty
    /\ i' = i + 1
    /\ UNCHANGED << Input, flushed, pc, err, suffixCalls >>

\* default: flushWord() returned false, break mainloop
ContentBreak ==
    /\ InLoop /\ IsContent(At(chars, i))
    /\ EndsWord(At(chars, i))
    /\ LET f == flushWord(Mem, length, breakWords)
       IN  /\ ~f.ret
           /\ SetMem(f.m)
    /\ cwEmpty' = TRUE
    /\ i' = i + 1
    /\ pc' = "final"
    /\ UNCHANGED << Input, flushed, err, suffixCalls >>

----------------------------------------------------------------------------
(* After the loop: the last flush, the closers, the suffix, the return *)

RECURSIVE Closers(_)
Closers(tags) ==
    IF tags = <<>> THEN <<>>
    ELSE <<"<", "/">> \o tags[1] \o <<">">> \o Closers(Tail(tags))

\* Finish without opened.reverse(): the closers come outermost first
FinishOuterFirst ==
    /\ pc = "final" \/ (pc = "loop" /\ ~LoopGuard)
    /\ LET f == flushWord(Mem, length, breakWords)
           add == ~f.ret /\ suffix # "null"
       IN  /\ flushed' = f.ret
           /\ SetMem([f.m EXCEPT
                  !.result = f.m.result \o Closers(f.m.opened)
                                 \o (IF add THEN SuffixText ELSE <<>>)])
           /\ suffixCalls' = IF add /\ suffix = "function"
                             THEN suffixCalls + 1 ELSE suffixCalls
    /\ pc' = "done"
    /\ UNCHANGED << Input, i, cwEmpty, err >>

Finish ==
    /\ pc = "final" \/ (pc = "loop" /\ ~LoopGuard)
    /\ LET f == flushWord(Mem, length, breakWords)
           o == Reverse(f.m.opened)
           add == ~f.ret /\ suffix # "null"
       IN  /\ flushed' = f.ret
           /\ SetMem([f.m EXCEPT
                  !.opened = o,
                  !.result = f.m.result \o Closers(o)
                                 \o (IF add THEN SuffixText ELSE <<>>)])
           /\ suffixCalls' = IF add /\ suffix = "function"
                             THEN suffixCalls + 1 ELSE suffixCalls
    /\ pc' = "done"
    /\ UNCHANGED << Input, i, cwEmpty, err >>

Next ==
    \/ LtFlush \/ LtBreak
    \/ Comment \/ BangLiteral
    \/ CloseTagOk \/ CloseTagThrow \/ CloseTagHang
    \/ OpenTag \/ OpenTagHang
    \/ Entity \/ EntityThrow
    \/ Content \/ ContentBreak
    \/ Finish

Spec == Init /\ [][Next]_vars

----------------------------------------------------------------------------
(* Measures the properties are stated with *)

Returned == pc = "done"

Raised == pc = "error"

SuffixAdded == Returned /\ ~flushed /\ suffix # "null"

\* the returned string without the suffix
Body == IF SuffixAdded THEN SubSeq(result, 1, Len(result) - Len(SuffixText))
        ELSE result

\* where '-->' begins at or after k, -1 when nowhere
RECURSIVE CommentEnd(_, _)
CommentEnd(s, k) ==
    IF k + 2 >= Len(s) THEN -1
    ELSE IF At(s, k) = "-" /\ At(s, k + 1) = "-" /\ At(s, k + 2) = ">" THEN k
    ELSE CommentEnd(s, k + 1)

IsCommentAt(s, k) ==
    At(s, k) = "<" /\ At(s, k + 1) = "!" /\ At(s, k + 2) = "-" /\ At(s, k + 3) = "-"

\* The number of visible characters of s from offset k on: a tag or a comment
\* counts 0, an entity reference 1, the '<' of a bare '<!' 1, any other
\* character 1.
RECURSIVE VisibleFrom(_, _)
VisibleFrom(s, k) ==
    IF k >= Len(s) THEN 0
    ELSE IF IsCommentAt(s, k)
    THEN LET e == CommentEnd(s, k + 4)
         IN  IF e = -1 THEN 0 ELSE VisibleFrom(s, e + 3)
    ELSE IF At(s, k) = "<" /\ At(s, k + 1) = "!" THEN 1 + VisibleFrom(s, k + 1)
    ELSE IF At(s, k) = "<"
    THEN LET e == FirstAt(s, k + 1, {">"})
         IN  IF e = -1 THEN 0 ELSE VisibleFrom(s, e + 1)
    ELSE IF At(s, k) = "&"
    THEN LET e == FirstAt(s, k + 1, {";"})
         IN  IF e = -1 THEN 1 ELSE 1 + VisibleFrom(s, e + 1)
    ELSE 1 + VisibleFrom(s, k + 1)

Visible(s) == VisibleFrom(s, 0)

\* A tag matcher over s from offset k with the stack st of unclosed tags:
\* [ok, stack], ok = FALSE at a closer that does not close the innermost
\* open tag or at a tag that never ends.
RECURSIVE TagScan(_, _, _)
TagScan(s, k, st) ==
    LET bad == [ok |-> FALSE, stack |-> <<>>]
    IN  IF k >= Len(s) THEN [ok |-> TRUE, stack |-> st]
        ELSE IF IsCommentAt(s, k)
        THEN LET e == CommentEnd(s, k + 4)
             IN  IF e = -1 THEN [ok |-> TRUE, stack |-> st] ELSE TagScan(s, e + 3, st)
        ELSE IF At(s, k) = "<" /\ At(s, k + 1) = "!" THEN TagScan(s, k + 1, st)
        ELSE IF At(s, k) = "<" /\ At(s, k + 1) = "/"
        THEN LET t == closeTag(s, k + 2)
             IN  IF t.ends /\ st # <<>> /\ st[Len(st)] = t.tag
                 THEN TagScan(s, t.i, SubSeq(st, 1, Len(st) - 1))
                 ELSE bad
        ELSE IF At(s, k) = "<"
        THEN LET t == openTag(s, k + 1)
             IN  IF t.ends THEN TagScan(s, t.i, Append(st, t.tag)) ELSE bad
        ELSE IF At(s, k) = "&"
        THEN LET e == FirstAt(s, k + 1, {";"})
             IN  TagScan(s, IF e = -1 THEN k + 1 ELSE e + 1, st)
        ELSE TagScan(s, k + 1, st)

Has(s, c) == \E k \in 1..Len(s) : s[k] = c

EndsWith(s, t) ==
    Len(s) >= Len(t) /\ SubSeq(s, Len(s) - Len(t) + 1, Len(s)) = t

----------------------------------------------------------------------------
(* C1: while scanning, the tags written to result and not yet closed there  *)
(* are exactly the stack `opened`, in order; the returned string has every  *)
(* written open tag closed, properly nested. Stated for sources without     *)
(* '!', so that every '<' of the output belongs to a tag.                   *)
C1_WellFormed ==
    LET m == TagScan(Body, 0, <<>>)
    IN  ~Has(chars, "!") =>
            /\ pc \in {"loop", "tag", "final"} => m.ok /\ m.stack = opened
            /\ Returned => m.ok /\ m.stack = <<>>

(* C2: the counter `current` of visible characters written never exceeds    *)
(* `length`.                                                                *)
C2_WithinBudget == current <= length

(* C3: with breakWords, a call that returns on a source with at least       *)
(* `length` visible characters has written exactly `length` of them.        *)
C3_ExactBudget ==
    Returned /\ breakWords /\ Visible(chars) >= length => current = length

(* C4: when `length` is at least the number of visible characters of the    *)
(* source, the returned string is the source itself. Stated for sources     *)
(* without tags or comments (no '<').                                       *)
C4_Untruncated ==
    Returned /\ length >= Visible(chars) /\ ~Has(chars, "<") => result = chars

\* some visible content of the source is missing from the output
Withheld == cw # <<>> \/ VisibleFrom(chars, i) > 0

\* '<span><div>Hello</div> </span>'
OutReadme ==
    <<"<", "s", "p", "a", "n", ">", "<", "d", "i", "v", ">",
      "H", "e", "l", "l", "o", "<", "/", "d", "i", "v", ">", " ",
      "<", "/", "s", "p", "a", "n", ">">>

(* C5: a call that returns with visible content withheld appends the suffix *)
(* (when there is one) after the closers; the README source with length 6   *)
(* gives '<span><div>Hello</div> </span>' followed by the suffix. Stated    *)
(* for length > 0.                                                          *)
C5_SuffixOnTruncation ==
    Returned /\ suffix # "null" /\ length > 0 =>
        /\ Withheld => ~flushed /\ EndsWith(result, Closers(opened) \o SuffixText)
        /\ chars = SrcReadme /\ length = 6 => result = OutReadme \o SuffixText

Range(s) == { s[k] : k \in 1..Len(s) }

StartsWith(s, t) == Len(s) >= Len(t) /\ SubSeq(s, 1, Len(t)) = t

(* C6: a call that consumed the whole input and withheld nothing, and any   *)
(* call whose `length` is at least the number of visible characters of the  *)
(* source, appends no suffix and does not invoke a callback suffix; an      *)
(* appended callback suffix was invoked exactly once.                       *)
C6_NoSuffixUntruncated ==
    /\ Returned /\ i >= Len(chars) /\ cw = <<>> => ~SuffixAdded /\ suffixCalls = 0
    /\ Returned /\ length >= Visible(chars) => ~SuffixAdded /\ suffixCalls = 0
    /\ SuffixAdded /\ suffix = "function" => suffixCalls = 1

\* '<p>Hello</p>' and '<p>Hello W</p>'
OutHello == <<"<", "p", ">", "H", "e", "l", "l", "o", "<", "/", "p", ">">>

OutHelloW ==
    <<"<", "p", ">", "H", "e", "l", "l", "o", " ", "W", "<", "/", "p", ">">>

\* flushWord() is called in this state and, not breaking words, rejects cw
WordRejected ==
    /\ ~breakWords /\ InLoop
    /\ At(chars, i) = "<" \/ (IsContent(At(chars, i)) /\ EndsWord(At(chars, i)))
    /\ cw # <<>> /\ current + Len(cw) > length

WritesOpenTags ==
    Len(opened') > Len(opened) \/ (openedQueue # <<>> /\ openedQueue' = <<>>)

(* C8: queued open tags are written only by a step that also writes at      *)
(* least one buffered character right after them, and all of them at once;  *)
(* tags still queued at the return are not in the output: the README call   *)
(* with length 6 returns '<span><div>Hello</div> </span>' with '<p>' queued.*)
C8_LazyOpenTags ==
    /\ [][WritesOpenTags =>
            /\ openedQueue' = <<>>
            /\ current' > current
            /\ StartsWith(result', result \o QueueText(openedQueue)
                                       \o SubSeq(cw, 1, current' - current))
            /\ current' - current <= Len(cw)]_vars
    /\ [](Returned /\ chars = SrcReadme /\ length = 6 =>
            Body = OutReadme /\ openedQueue = << <<<<"p">>, <<>>>> >>)

C8_Witness ==
    /\ Returned /\ chars = SrcReadme /\ length = 6
    /\ Body = OutReadme /\ openedQueue # <<>>

\* offset j lies in a comment '<!-- ... -->' of s, delimiters included
InComment(s, j) ==
    \E k \in 0..j :
        /\ IsCommentAt(s, k)
        /\ CommentEnd(s, k + 4) # -1
        /\ j < CommentEnd(s, k + 4) + 3

(* C9: no character of a comment of the source, delimiters included, is     *)
(* buffered or written as ordinary content; 'a<!-- bbbbbb -->b' with        *)
(* length 2 is returned whole, the comment verbatim and uncounted.          *)
C9_CommentPassthrough ==
    /\ \A j \in emitted \cup Range(cwAt) : ~InComment(chars, j)
    /\ Returned /\ chars = SrcComment /\ length = 2 => Body = SrcComment

\* a closer is about to be scanned whose name is not on the stack
UnmatchedCloser ==
    /\ pc = "tag" /\ At(chars, i) = "/"
    /\ closeTag(chars, i + 1).ends
    /\ closeTag(chars, i + 1).tag \notin Range(opened)

(* C10: scanning a closer whose name is not on the stack raises the error   *)
(* naming that tag and the offset of its '<'; a call that raised returns    *)
(* nothing; '<b>x</i>' with length 10 raises for tag 'i'.                   *)
C10_UnbalancedCloseRaises ==
    /\ [][UnmatchedCloser =>
            /\ pc' = "error"
            /\ err' = <<"closing tag", closeTag(chars, i + 1).tag, i - 1>>]_vars
    /\ [][~Raised]_vars
    /\ [](chars = SrcUnbalanced /\ length = 10 => ~Returned)

C10_Witness ==
    /\ Raised /\ chars = SrcUnbalanced /\ length = 10
    /\ err = <<"closing tag", <<"i">>, 4>>

\* an '&' is about to be scanned with no ';' left in the input
OpenEntity ==
    InLoop /\ At(chars, i) = "&" /\ FirstAt(chars, i + 1, {";"}) = -1

(* C11: scanning an '&' with no ';' before the end of the input raises the  *)
(* error with the offset of the '&'; a call that raised returns nothing;    *)
(* 'a &amp' with length 10 raises at offset 2.                              *)
C11_OpenEntityRaises ==
    /\ [][OpenEntity => pc' = "error" /\ err' = <<"entity", <<>>, i>>]_vars
    /\ [][Raised => pc' = "error" /\ err' = err]_vars
    /\ [](chars = SrcOpenEntity /\ length = 10 => ~Returned)

C11_Witness ==
    /\ Raised /\ chars = SrcOpenEntity /\ length = 10
    /\ err = <<"entity", <<>>, 2>>

\* s from offset k on is made of whole pieces: '<' through its '>', '&'
\* through its ';', and characters that are neither '<' nor '&'
RECURSIVE Whole(_, _)
Whole(s, k) ==
    IF k >= Len(s) THEN TRUE
    ELSE IF At(s, k) = "<"
    THEN LET e == FirstAt(s, k + 1, {">"}) IN e # -1 /\ Whole(s, e + 1)
    ELSE IF At(s, k) = "&"
    THEN LET e == FirstAt(s, k + 1, {";"}) IN e # -1 /\ Whole(s, e + 1)
    ELSE Whole(s, k + 1)

\* the step is the bare '<!' branch writing its literal '<'
WritesLiteralLt ==
    /\ pc = "tag" /\ At(chars, i) = "!" /\ ~IsCommentStart
    /\ result' = result \o <<"<">>

(* C12 as stated: in the returned string every '<' has its '>' after it and *)
(* every '&' its ';' (a '<' inside an entity reference, or an '&' inside a  *)
(* tag, is part of that piece).                                             *)
C12_NoSplit == Returned => Whole(Body, 0)

(* C12 as amended: result only grows, and what a step that does not throw   *)
(* appends is made of whole tags and whole entity references, except that   *)
(* the bare '<!' branch appends a single literal '<'.                       *)
C12_WholeFragments ==
    [][pc' # "error" =>
          /\ StartsWith(result', result)
          /\ \/ Whole(SubSeq(result', Len(result) + 1, Len(result')), 0)
             \/ WritesLiteralLt]_vars

C12_Witness ==
    /\ Returned /\ Withheld /\ Has(Body, "&")
    /\ opened # <<>> /\ EndsWith(Body, Closers(opened))

\* every tag of the source is closed innermost first and every '&' has its ';'
WellNested(s) ==
    /\ TagScan(s, 0, <<>>) = [ok |-> TRUE, stack |-> <<>>]
    /\ \A k \in 1..Len(s) : s[k] = "&" => \E j \in (k + 1)..Len(s) : s[j] = ";"

(* C13: a call on a source whose tags are balanced and properly nested and  *)
(* whose entity references all end in ';' does not raise.                   *)
C13_BalancedNeverRaises == WellNested(chars) => ~Raised

(* C14: the call ends: no scan for the end of a tag runs past the end of    *)
(* the input without finding it.                                            *)
C14_Terminates == pc # "hang"

\* The visible content of s from offset k on, in order: s without its tags
\* and comments (entity references and the '<' of a bare '<!' stay).
RECURSIVE StripFrom(_, _)
StripFrom(s, k) ==
    IF k >= Len(s) THEN <<>>
    ELSE IF IsCommentAt(s, k)
    THEN LET e == CommentEnd(s, k + 4)
         IN  IF e = -1 THEN <<>> ELSE StripFrom(s, e + 3)
    ELSE IF At(s, k) = "<" /\ At(s, k + 1) = "!"
    THEN <<"<">> \o StripFrom(s, k + 1)
    ELSE IF At(s, k) = "<"
    THEN LET e == FirstAt(s, k + 1, {">"})
         IN  IF e = -1 THEN <<>> ELSE StripFrom(s, e + 1)
    ELSE <<At(s, k)>> \o StripFrom(s, k + 1)

Strip(s) == StripFrom(s, 0)

(* C15: the visible content of the returned string is a prefix of the       *)
(* visible content of the source, in source order. Stated for sources       *)
(* without '!'.                                                             *)
C15_VisiblePrefix ==
    Returned /\ ~Has(chars, "!") => StartsWith(Strip(chars), Strip(Body))

(* C16: a step that commits visible content (raises `current`) first writes *)
(* every queued open tag, leaving the queue empty.                          *)
C16_OpenTagsBeforeContent ==
    [][current' > current =>
          /\ openedQueue' = <<>>
          /\ StartsWith(result', result \o QueueText(openedQueue))]_vars

(* C17: the returning step writes, after whatever its last flush writes     *)
(* (the queued open tags and n >= 1 characters of cw, or nothing), the      *)
(* closers of exactly the tags then on the stack, innermost first, whether  *)
(* or not that flush succeeded, and after them the suffix if any; tags left *)
(* in the queue are written neither as openers nor as closers.              *)
C17_AutoClose ==
    [][pc # "done" /\ pc' = "done" =>
          \E n \in 0..Len(cw) :
              LET stack == IF n > 0 THEN opened \o QueueTags(openedQueue)
                           ELSE opened
                  text == IF n > 0
                          THEN QueueText(openedQueue) \o SubSeq(cw, 1, n)
                          ELSE <<>>
              IN  /\ opened' = Reverse(stack)
                  /\ openedQueue' = IF n > 0 THEN <<>> ELSE openedQueue
                  /\ \E sfx \in {<<>>, SuffixText} :
                         /\ result' = result \o text \o Closers(Reverse(stack))
                                             \o sfx
                         /\ sfx # <<>> => ~flushed' /\ suffix # "null"]_vars

C17_Witness ==
    /\ Returned /\ SuffixAdded /\ openedQueue # <<>>
    /\ Len(opened) >= 2 /\ opened[1] # opened[2]
    /\ EndsWith(Body, Closers(opened))

\* flushWord() is called by the default case in this state
ContentFlushes ==
    InLoop /\ IsContent(At(chars, i)) /\ EndsWord(At(chars, i))

(* C18: with breakWords, after a flushWord() that returned true (in case    *)
(* '<', in the default case before the new character is buffered, or as     *)
(* the final flush) the word buffer is empty or current = length, and no    *)
(* flushWord() inside the loop returns false; in either mode a flushWord()  *)
(* that returned false (a break out of the loop, a failed final flush)      *)
(* left result, current, cw, opened and openedQueue as they were.           *)
C18_FlushWord ==
    /\ [][breakWords /\ pc = "loop" /\ pc' = "tag" =>
            cw' = <<>> \/ current' = length]_vars
    /\ [][breakWords /\ ContentFlushes /\ pc' = "loop" =>
            cw' = <<At(chars, i)>> \/ current' = length]_vars
    /\ [][breakWords /\ pc # "done" /\ pc' = "done" /\ flushed' =>
            cw' = <<>> \/ current' = length]_vars
    /\ [][breakWords /\ pc = "loop" => pc' # "final"]_vars
    /\ [][pc # "final" /\ pc' = "final" =>
            /\ result' = result /\ current' = current /\ cw' = cw
            /\ opened' = opened /\ openedQueue' = openedQueue]_vars
    /\ [][pc # "done" /\ pc' = "done" /\ ~flushed' =>
            /\ current' = current /\ cw' = cw /\ openedQueue' = openedQueue
            /\ opened' = Reverse(opened)
            /\ StartsWith(result', result \o Closers(Reverse(opened)))
            /\ Len(result') <= Len(result) + Len(Closers(opened))
                                 + Len(SuffixText)]_vars

C18_Witness ==
    breakWords /\ pc = "tag" /\ cw # <<>> /\ current = length /\ emitted # {}

====
